---- MODULE Spec2Model ----
(***************************************************************************)
(* Model of streamlit_app.py: the sentiment dashboard.  Text is modelled   *)
(* as sequences of one-character strings, the backing file DATA_FILE as    *)
(* either absent or a character sequence, and every run of the Streamlit   *)
(* script (one per user action) as one atomic step.                        *)
(***************************************************************************)
EXTENDS Naturals, Sequences, FiniteSets, TLC

VARIABLES
    file,       \* DATA_FILE: [exists, content]
    now,        \* the local clock, in half hours since 2024-01-01 00:00:00
    written,    \* history: the (timestamp, sentiment, message) triples passed
                \* to save_to_file since the start or the last removal of
                \* the file, each with the clock value it was written at
    event,      \* the kind of the last step
    call,       \* what the last run did around analyze_sentiment
    page        \* what the last run of the script computed and rendered

vars == <<file, now, written, event, call, page>>

-----------------------------------------------------------------------------
(* Bounds *)

\* appends per behaviour of the full dashboard specification
MaxAppends == 2
\* last clock value of the full dashboard specification
MaxClock == 1
\* appends per behaviour of the label-count specification
MaxCountAppends == 6
\* appends per behaviour and last clock value of the time-series specification
MaxSeriesAppends == 3
MaxSeriesClock == 5
\* length of the file contents the load specification starts from
MaxFileLen == 5

-----------------------------------------------------------------------------
(* Text *)

NL == "\n"
DELIM == "|"
Whitespace == {" ", NL, "\t", "\r"}

POSITIVE == <<"p", "o", "s", "i", "t", "i", "v", "e">>
NEGATIVE == <<"n", "e", "g", "a", "t", "i", "v", "e">>
NEUTRAL == <<"n", "e", "u", "t", "r", "a", "l">>
\* a label outside the three recognised values
MIXED == <<"m", "i", "x", "e", "d">>

SENTIMENT_EMOJIS ==
    (POSITIVE :> <<"smile", "thumbs_up", "sparkles">>)
        @@ (NEGATIVE :> <<"disappointed", "thumbs_down", "cross">>)
        @@ (NEUTRAL :> <<"neutral_face", "scales", "thinking">>)

Reverse(s) == [i \in 1..Len(s) |-> s[Len(s) + 1 - i]]

\* index of the first occurrence of c in s, 0 when there is none
Find(s, c) ==
    IF \E i \in 1..Len(s) : s[i] = c
    THEN CHOOSE i \in 1..Len(s) : s[i] = c /\ \A j \in 1..(i - 1) : s[j] # c
    ELSE 0

\* str.strip(): leading and trailing whitespace removed
RECURSIVE LStrip(_)
LStrip(s) == IF s # <<>> /\ Head(s) \in Whitespace THEN LStrip(Tail(s)) ELSE s

RECURSIVE RStrip(_)
RStrip(s) ==
    IF s # <<>> /\ s[Len(s)] \in Whitespace
    THEN RStrip(SubSeq(s, 1, Len(s) - 1))
    ELSE s

Strip(s) == RStrip(LStrip(s))

\* str.split(sep, maxsplit): at most maxsplit splits, the rest kept whole
RECURSIVE Split(_, _, _)
Split(s, sep, maxsplit) ==
    LET i == Find(s, sep) IN
    IF maxsplit = 0 \/ i = 0
    THEN <<s>>
    ELSE <<SubSeq(s, 1, i - 1)>>
             \o Split(SubSeq(s, i + 1, Len(s)), sep, maxsplit - 1)

\* iteration over a text file: the lines, each with its terminator
RECURSIVE Lines(_)
Lines(s) ==
    LET i == Find(s, NL) IN
    IF s = <<>> THEN <<>>
    ELSE IF i = 0 THEN <<s>>
    ELSE <<SubSeq(s, 1, i)>> \o Lines(SubSeq(s, i + 1, Len(s)))

-----------------------------------------------------------------------------
(* Clock *)

Digit(d) == <<"0", "1", "2", "3", "4", "5", "6", "7", "8", "9">>[d + 1]
TwoDigits(n) == <<Digit(n \div 10), Digit(n % 10)>>
DATE == <<"2", "0", "2", "4", "-", "0", "1", "-", "0", "1">>

\* datetime.now().strftime("%Y-%m-%d %H:%M:%S")
strftime(t) ==
    DATE \o <<" ">> \o TwoDigits(t \div 2) \o <<":">>
         \o TwoDigits(30 * (t % 2)) \o <<":", "0", "0">>

-----------------------------------------------------------------------------
(* Event log store *)

Absent == [exists |-> FALSE, content |-> <<>>]

TIMESTAMP == <<"t", "i", "m", "e", "s", "t", "a", "m", "p">>
SENTIMENT == <<"s", "e", "n", "t", "i", "m", "e", "n", "t">>
MESSAGE == <<"m", "e", "s", "s", "a", "g", "e">>
COLUMNS == <<TIMESTAMP, SENTIMENT, MESSAGE>>

\* mutant: the file opened with mode "w", so that each write replaces it
save_to_file_truncating(f, t, message, sentiment) ==
    [exists |-> TRUE,
     content |-> strftime(t) \o <<DELIM>> \o sentiment
                     \o <<DELIM>> \o message \o <<NL>>]

save_to_file(f, t, message, sentiment) ==
    [exists |-> TRUE,
     content |-> f.content \o strftime(t) \o <<DELIM>> \o sentiment
                     \o <<DELIM>> \o message \o <<NL>>]

\* mutant: the line split without maxsplit
parse_line_unbounded(line) ==
    LET parts == Split(Strip(line), DELIM, Len(line)) IN
    IF Len(parts) = 3
    THEN <<[timestamp |-> parts[1], sentiment |-> parts[2],
            message |-> parts[3]]>>
    ELSE <<>>

\* the loop body of load_data for one line: the rows it appends
parse_line(line) ==
    LET parts == Split(Strip(line), DELIM, 2) IN
    IF Len(parts) = 3
    THEN <<[timestamp |-> parts[1], sentiment |-> parts[2],
            message |-> parts[3]]>>
    ELSE <<>>

RECURSIVE parse_lines(_)
parse_lines(ls) ==
    IF ls = <<>> THEN <<>> ELSE parse_line(Head(ls)) \o parse_lines(Tail(ls))

\* a DataFrame: its columns and its rows, in index order
load_data(f) ==
    IF ~f.exists
    THEN [columns |-> COLUMNS, rows |-> <<>>]
    ELSE LET data == parse_lines(Lines(f.content)) IN
         [columns |-> IF data = <<>> THEN <<>> ELSE COLUMNS, rows |-> data]

\* mutant: os.remove without the os.path.exists test
clear_history_unguarded(f) ==
    IF f.exists
    THEN [file |-> Absent, removed |-> TRUE, raised |-> FALSE]
    ELSE [file |-> f, removed |-> FALSE, raised |-> TRUE]

\* the file afterwards, whether os.remove ran, and whether the call raised
clear_history(f) ==
    IF f.exists
    THEN [file |-> Absent, removed |-> TRUE, raised |-> FALSE]
    ELSE [file |-> f, removed |-> FALSE, raised |-> FALSE]

-----------------------------------------------------------------------------
(* Classifier client *)

HTTP_OK == 200

None == [isNone |-> TRUE, str |-> <<>>]
Some(s) == [isNone |-> FALSE, str |-> s]
\* Python truth of an optional string: None and "" are false
Truthy(v) == ~v.isNone /\ v.str # <<>>

\* what requests.post and response.json() do for one call: raise, or answer
\* with a status and a 'result'
Response(status, result) ==
    [raises |-> FALSE, status |-> status, result |-> result]
Failure == [raises |-> TRUE, status |-> 0, result |-> <<>>]

\* mutant: a failed call answered with a default label
analyze_sentiment_default(outcome) ==
    IF outcome.raises
    THEN [value |-> Some(NEUTRAL), st_error |-> "Error"]
    ELSE IF outcome.status = HTTP_OK
    THEN [value |-> Some(outcome.result), st_error |-> "none"]
    ELSE [value |-> None, st_error |-> "API Error"]

analyze_sentiment(outcome) ==
    IF outcome.raises
    THEN [value |-> None, st_error |-> "Error"]
    ELSE IF outcome.status = HTTP_OK
    THEN [value |-> Some(outcome.result), st_error |-> "none"]
    ELSE [value |-> None, st_error |-> "API Error"]

-----------------------------------------------------------------------------
(* Analytics *)

\* df.tail(n)
tail(rows, n) ==
    IF Len(rows) <= n THEN rows ELSE SubSeq(rows, Len(rows) - n + 1, Len(rows))

FEED_SIZE == 5

\* df.tail(5).iloc[::-1]
recent_df(rows) == Reverse(tail(rows, FEED_SIZE))

\* len(df[df['sentiment'] == label])
label_count(rows, label) ==
    Len(SelectSeq(rows, LAMBDA r : r.sentiment = label))

\* Series.value_counts() over the labels: one entry per observed label,
\* built by counting the labels one at a time
RECURSIVE value_counts(_)
value_counts(labels) ==
    IF labels = <<>> THEN <<>>
    ELSE LET rest == value_counts(Tail(labels))
             l == Head(labels)
         IN  IF l \in DOMAIN rest
             THEN [rest EXCEPT ![l] = @ + 1]
             ELSE rest @@ (l :> 1)

\* mutant: the three known labels always present, with 0 when unobserved
sentiment_counts_dense(rows) ==
    LET observed == value_counts([i \in 1..Len(rows) |-> rows[i].sentiment])
    IN  [l \in DOMAIN observed \cup {POSITIVE, NEGATIVE, NEUTRAL} |->
            IF l \in DOMAIN observed THEN observed[l] ELSE 0]

sentiment_counts(rows) ==
    value_counts([i \in 1..Len(rows) |-> rows[i].sentiment])

IsDigit(c) == \E d \in 0..9 : Digit(d) = c
DigitVal(c) == CHOOSE d \in 0..9 : Digit(d) = c
IsTwoDigits(s, i) == IsDigit(s[i]) /\ IsDigit(s[i + 1])
TwoDigitVal(s, i) == 10 * DigitVal(s[i]) + DigitVal(s[i + 1])

\* pd.to_datetime of one "%Y-%m-%d %H:%M:%S" timestamp of 2024-01-01:
\* the seconds since midnight, or a failure to parse
to_datetime(s) ==
    IF /\ Len(s) = 19
       /\ SubSeq(s, 1, 10) = DATE
       /\ s[11] = " " /\ s[14] = ":" /\ s[17] = ":"
       /\ IsTwoDigits(s, 12) /\ IsTwoDigits(s, 15) /\ IsTwoDigits(s, 18)
    THEN [ok |-> TRUE,
          seconds |-> 3600 * TwoDigitVal(s, 12) + 60 * TwoDigitVal(s, 15)
                          + TwoDigitVal(s, 18)]
    ELSE [ok |-> FALSE, seconds |-> 0]

SetMin(S) == CHOOSE x \in S : \A y \in S : x <= y
SetMax(S) == CHOOSE x \in S : \A y \in S : y <= x

\* one record falls into the bin of its hour
RECURSIVE fill_bins(_, _)
fill_bins(bins, hours) ==
    IF hours = <<>> THEN bins
    ELSE LET k == CHOOSE i \in 1..Len(bins) : bins[i].hour = Head(hours)
         IN  fill_bins([bins EXCEPT ![k].count = @ + 1], Tail(hours))

\* mutant: a group-by on the hour, which has the observed hours only
resample_count_sparse(times) ==
    LET hours == [i \in 1..Len(times) |-> times[i].seconds \div 3600]
        first == SetMin({hours[i] : i \in 1..Len(hours)})
        last == SetMax({hours[i] : i \in 1..Len(hours)})
        bins == [k \in 1..(last - first + 1) |->
                    [hour |-> first + k - 1, count |-> 0]]
    IN  SelectSeq(fill_bins(bins, hours), LAMBDA b : b.count > 0)

\* df.set_index('timestamp').resample('H')['sentiment'].count(): hourly bins
\* from the hour of the earliest to the hour of the latest index value
resample_count(times) ==
    LET hours == [i \in 1..Len(times) |-> times[i].seconds \div 3600]
        first == SetMin({hours[i] : i \in 1..Len(hours)})
        last == SetMax({hours[i] : i \in 1..Len(hours)})
        bins == [k \in 1..(last - first + 1) |->
                    [hour |-> first + k - 1, count |-> 0]]
    IN  fill_bins(bins, hours)

\* csv.writer with QUOTE_MINIMAL
NeedsQuote(s) == \E i \in 1..Len(s) : s[i] \in {",", "\"", NL, "\r"}

RECURSIVE DoubleQuotes(_)
DoubleQuotes(s) ==
    IF s = <<>> THEN <<>>
    ELSE (IF Head(s) = "\"" THEN <<"\"", "\"">> ELSE <<Head(s)>>)
             \o DoubleQuotes(Tail(s))

csv_field(s) ==
    IF NeedsQuote(s) THEN <<"\"">> \o DoubleQuotes(s) \o <<"\"">> ELSE s

RECURSIVE csv_join(_)
csv_join(fields) ==
    IF fields = <<>> THEN <<>>
    ELSE IF Len(fields) = 1 THEN csv_field(fields[1])
    ELSE csv_field(fields[1]) \o <<",">> \o csv_join(Tail(fields))

csv_line(fields) == csv_join(fields) \o <<NL>>

RECURSIVE csv_rows(_)
csv_rows(rows) ==
    IF rows = <<>> THEN <<>>
    ELSE csv_line(<<Head(rows).timestamp, Head(rows).sentiment,
                    Head(rows).message>>) \o csv_rows(Tail(rows))

\* DataFrame.to_csv(index=False)
to_csv(df) == csv_line(df.columns) \o csv_rows(df.rows)

\* mutant: the table exported as it is displayed, newest first
export_data_reversed(f) ==
    to_csv([columns |-> load_data(f).columns,
            rows |-> Reverse(load_data(f).rows)])

export_data(f) == to_csv(load_data(f))

-----------------------------------------------------------------------------
(* The script: one run of streamlit_app.py from top to bottom *)

\* DataFrame.empty
empty(df) == df.columns = <<>> \/ df.rows = <<>>

\* a run that rendered nothing below its input section
BlankPage ==
    [raised |-> FALSE,          \* the run ended in an unhandled exception
     loaded |-> FALSE,          \* the feed's load_data() was reached
     df |-> <<>>,               \* the rows the feed loaded
     feed |-> <<>>,             \* recent_df
     analytics |-> FALSE,       \* the analytics of tab2 were computed
     total |-> 0, positive |-> 0, negative |-> 0, neutral |-> 0,
     counts |-> <<>>,           \* sentiment_counts
     charted |-> FALSE,         \* the time series was computed
     df_time |-> <<>>,          \* its (hour, count) buckets
     exported |-> FALSE,        \* the download button was rendered
     csv_data |-> <<>>,
     table |-> <<>>]            \* the rows of the "All Messages" table

NoCall ==
    [clicked |-> FALSE,         \* the analyze button was pressed
     message |-> <<>>,          \* the text of the input box
     made |-> FALSE,            \* analyze_sentiment was called
     outcome |-> Failure,       \* what the classification call did, if made
     sentiment |-> None,        \* what it returned
     st_error |-> "none",       \* the error it reported
     saved |-> FALSE,           \* save_to_file was called
     removed |-> FALSE]         \* clear_history removed the file

\* "Recent Messages" of tab1
tab1_feed(pg, f) ==
    LET df == load_data(f)
        recent == IF empty(df) THEN <<>> ELSE recent_df(df.rows)
    IN  [pg EXCEPT !.loaded = TRUE, !.df = df.rows, !.feed = recent,
                   !.raised = \E i \in 1..Len(recent) :
                                  recent[i].sentiment \notin DOMAIN SENTIMENT_EMOJIS]

\* the time series of tab2
tab2_series(pg, rows) ==
    IF Len(rows) > 1
    THEN LET times == [i \in 1..Len(rows) |-> to_datetime(rows[i].timestamp)]
         IN  IF \E i \in 1..Len(times) : ~times[i].ok
             THEN [pg EXCEPT !.raised = TRUE]
             ELSE [pg EXCEPT !.charted = TRUE, !.df_time = resample_count(times)]
    ELSE pg

\* the export section and the table of tab2
tab2_export(pg, f, rows) ==
    [pg EXCEPT !.exported = TRUE, !.csv_data = export_data(f),
               !.table = Reverse(rows)]

\* "Sentiment Analytics" of tab2
tab2(pg, f) ==
    LET df == load_data(f) IN
    IF empty(df) THEN pg
    ELSE LET metrics == [pg EXCEPT !.analytics = TRUE,
                                   !.total = Len(df.rows),
                                   !.positive = label_count(df.rows, POSITIVE),
                                   !.negative = label_count(df.rows, NEGATIVE),
                                   !.neutral = label_count(df.rows, NEUTRAL),
                                   !.counts = sentiment_counts(df.rows)]
             series == tab2_series(metrics, df.rows)
         IN  IF series.raised THEN series ELSE tab2_export(series, f, df.rows)

\* a run in which no button is pressed
render(f) ==
    LET feed == tab1_feed(BlankPage, f) IN
    IF feed.raised THEN feed ELSE tab2(feed, f)

\* a run with the analyze button pressed: the file, the history, the call
\* and the page afterwards
run_analyze(f, t, w, message, outcome) ==
    IF message = <<>>
    THEN [file |-> f, written |-> w,
          call |-> [NoCall EXCEPT !.clicked = TRUE],
          page |-> render(f)]
    ELSE LET r == analyze_sentiment(outcome)
             c == [NoCall EXCEPT !.clicked = TRUE, !.message = message,
                                 !.made = TRUE, !.outcome = outcome,
                                 !.sentiment = r.value,
                                 !.st_error = r.st_error]
         IN  IF Truthy(r.value)
             THEN LET f2 == save_to_file(f, t, message, r.value.str)
                      w2 == Append(w, [clock |-> t,
                                       timestamp |-> strftime(t),
                                       sentiment |-> r.value.str,
                                       message |-> message])
                  IN  [file |-> f2, written |-> w2,
                       call |-> [c EXCEPT !.saved = TRUE],
                       page |-> IF r.value.str \in DOMAIN SENTIMENT_EMOJIS
                                THEN render(f2)
                                ELSE [BlankPage EXCEPT !.raised = TRUE]]
             ELSE [file |-> f, written |-> w, call |-> c, page |-> render(f)]

\* a run with a clear button pressed: clear_history(), then st.rerun()
run_clear(f) ==
    LET r == clear_history(f) IN
    [file |-> r.file,
     call |-> [NoCall EXCEPT !.removed = r.removed],
     page |-> IF r.raised THEN [BlankPage EXCEPT !.raised = TRUE]
              ELSE render(r.file)]

-----------------------------------------------------------------------------
(* Inputs *)

KnownLabels == {POSITIVE, NEGATIVE, NEUTRAL}

\* the texts typed into the input box
Messages ==
    {<<>>, <<"a", DELIM, "b">>, <<"a", " ">>, <<"a", NL, "b">>,
     <<NL, DELIM, DELIM>>}

\* what the classification call does
Outcomes ==
    {Failure, Response(500, <<>>), Response(HTTP_OK, POSITIVE),
     Response(HTTP_OK, NEGATIVE), Response(HTTP_OK, MIXED)}

-----------------------------------------------------------------------------
(* Steps *)

Init ==
    /\ file = Absent
    /\ now = 0
    /\ written = <<>>
    /\ event = "open"
    /\ call = NoCall
    /\ page = render(Absent)

\* the analyze button, with `message` in the input box
Analyze(message, outcome, maxAppends) ==
    /\ Len(written) < maxAppends
    /\ \E r \in {run_analyze(file, now, written, message, outcome)} :
        /\ file' = r.file
        /\ written' = r.written
        /\ call' = r.call
        /\ page' = r.page
    /\ event' = "analyze"
    /\ UNCHANGED now

\* the "Clear History" button of tab1
ClearHistory ==
    /\ \E r \in {run_clear(file)} :
        /\ file' = r.file
        /\ call' = r.call
        /\ page' = r.page
    /\ written' = <<>>
    /\ event' = "clear"
    /\ UNCHANGED now

\* the "Clear All Data" button of tab2, there only when the last run
\* rendered it
ClearAll ==
    /\ page.exported
    /\ \E r \in {run_clear(file)} :
        /\ file' = r.file
        /\ call' = r.call
        /\ page' = r.page
    /\ written' = <<>>
    /\ event' = "clear"
    /\ UNCHANGED now

\* any other interaction (the download button, a reload of the page)
Rerun ==
    /\ page' = render(file)
    /\ call' = NoCall
    /\ event' = "rerun"
    /\ UNCHANGED <<file, now, written>>

\* the clock advances
Tick(maxClock) ==
    /\ now < maxClock
    /\ now' = now + 1
    /\ UNCHANGED <<file, written, event, call, page>>

\* the dashboard, with every action and every kind of input
Next ==
    \/ \E m \in Messages, o \in Outcomes : Analyze(m, o, MaxAppends)
    \/ ClearHistory
    \/ ClearAll
    \/ Rerun
    \/ Tick(MaxClock)

Spec == Init /\ [][Next]_vars

\* many classified messages at one time of day: the label counts
CountLabels == KnownLabels \cup {MIXED}

NextCounts ==
    \/ \E l \in CountLabels :
           Analyze(<<"a">>, Response(HTTP_OK, l), MaxCountAppends)
    \/ Rerun

SpecCounts == Init /\ [][NextCounts]_vars

\* messages spread over the hours: the time series
NextSeries ==
    \/ Analyze(<<"a">>, Response(HTTP_OK, POSITIVE), MaxSeriesAppends)
    \/ Rerun
    \/ Tick(MaxSeriesClock)

SpecSeries == Init /\ [][NextSeries]_vars

\* the dashboard opened on a file with any content: load_data
FileAlphabet == {"a", DELIM, " ", NL}
FileContents == UNION {[1..n -> FileAlphabet] : n \in 0..MaxFileLen}

InitLoad ==
    /\ file \in {[exists |-> TRUE, content |-> c] : c \in FileContents}
    /\ now = 0
    /\ written = <<>>
    /\ event = "open"
    /\ call = NoCall
    /\ page = render(file)

NextLoad ==
    \/ Rerun
    \/ ClearHistory

SpecLoad == InitLoad /\ [][NextLoad]_vars

-----------------------------------------------------------------------------
(* Properties *)

IsPrefix(a, b) == Len(a) <= Len(b) /\ SubSeq(b, 1, Len(a)) = a
Min(a, b) == IF a <= b THEN a ELSE b
Occurrences(s, c) == Cardinality({i \in 1..Len(s) : s[i] = c})
Stored == load_data(file).rows
Triple(r) == <<r.timestamp, r.sentiment, r.message>>
Key(r) == <<r.timestamp, r.sentiment>>

\* C1: after save_to_file(text, label) with one of the three known labels,
\* load_data() holds at the position of that append the timestamp written,
\* the label and the text unchanged, whatever the text is.
C1_RoundTrip ==
    (event = "analyze" /\ call.saved /\ call.sentiment.str \in KnownLabels) =>
        /\ Len(written) <= Len(Stored)
        /\ Triple(Stored[Len(written)]) = Triple(written[Len(written)])

\* C2: a run whose classification call raises or answers with a status other
\* than 200 gets None from analyze_sentiment, reports an error and leaves the
\* file as it was; a run with an empty message makes no call and leaves the
\* file as it was; the file grows only in a run in which analyze_sentiment
\* returned a label.
C2_NoWriteUnlessClassified ==
    [][/\ (event' = "analyze" /\ call'.made
            /\ (call'.outcome.raises \/ call'.outcome.status # HTTP_OK))
           => (call'.sentiment = None /\ call'.st_error # "none"
               /\ ~call'.saved /\ file' = file)
       /\ (event' = "analyze" /\ call'.clicked /\ call'.message = <<>>)
           => (~call'.made /\ ~call'.saved /\ file' = file)
       /\ (file' # file /\ file'.exists)
           => (event' = "analyze" /\ call'.made /\ call'.saved
               /\ ~call'.sentiment.isNone
               /\ ~call'.outcome.raises /\ call'.outcome.status = HTTP_OK)
      ]_vars

\* a failed classification in a run over a file that holds records
C2_Witness ==
    /\ event = "analyze" /\ call.made /\ call.outcome.raises
    /\ call.sentiment = None /\ file.exists /\ Len(written) > 0

\* C3: load_data() returns the appended records, oldest first, and the feed
\* shows the 5 most recently appended ones (all of them when there are fewer),
\* newest first.
C3_AppendOrder ==
    page.loaded =>
        /\ Len(page.df) = Len(written)
        /\ \A i \in 1..Len(written) : Key(page.df[i]) = Key(written[i])
        /\ Len(page.feed) = Min(FEED_SIZE, Len(written))
        /\ \A k \in 1..Len(page.feed) :
               Key(page.feed[k]) = Key(written[Len(written) + 1 - k])

\* C4: a step changes the file only by removing it whole (a clear) or by
\* writing at its end; in every step that is no clear, the records loaded
\* before are a prefix of the records loaded after.
C4_AppendOnly ==
    [][\/ file' = file
       \/ event' = "clear" /\ file' = Absent
       \/ /\ event' = "analyze" /\ call'.saved
          /\ file'.exists
          /\ IsPrefix(file.content, file'.content)
          /\ IsPrefix(load_data(file).rows, load_data(file').rows)
          /\ Len(load_data(file').rows) > Len(load_data(file).rows)
      ]_vars

\* a second record appended behind a first
C4_Witness ==
    event = "analyze" /\ call.saved /\ Len(written) = 2 /\ Len(Stored) >= 2

\* C5: after clear_history() the store is empty and load_data() returns an
\* empty table without error, whether the file was there or not; a clear of
\* a missing file (a second clear) is a no-op that does not raise.
C5_IdempotentClear ==
    event = "clear" =>
        /\ ~file.exists
        /\ Stored = <<>>
        /\ ~page.raised /\ page.loaded /\ page.df = <<>> /\ page.feed = <<>>

\* a clear that found no file to remove
C5_Witness ==
    event = "clear" /\ ~call.removed /\ ~file.exists /\ page.loaded

\* the lines of the file with at least two delimiters
WellFormed(content) ==
    SelectSeq(Lines(content), LAMBDA l : Occurrences(l, DELIM) >= 2)

\* C6: load_data() returns, in file order, one record for each line with at
\* least two delimiters (timestamp and sentiment hold none, and the three
\* fields joined by the delimiter are the stripped line) and drops the others.
C6_MalformedDropped ==
    page.loaded =>
        LET good == WellFormed(file.content) IN
        /\ Len(page.df) = Len(good)
        /\ \A i \in 1..Len(good) :
               /\ Occurrences(page.df[i].timestamp, DELIM) = 0
               /\ Occurrences(page.df[i].sentiment, DELIM) = 0
               /\ page.df[i].timestamp \o <<DELIM>> \o page.df[i].sentiment
                      \o <<DELIM>> \o page.df[i].message = Strip(good[i])

\* one well-formed line and one line with no delimiter: one record
C6_Witness ==
    /\ event = "rerun" /\ page.loaded /\ Len(page.df) = 1
    /\ Len(Lines(file.content)) = 2
    /\ \E i \in 1..2 :
           /\ Occurrences(Lines(file.content)[i], DELIM) = 0
           /\ Strip(Lines(file.content)[i]) # <<>>

HEADER == TIMESTAMP \o <<",">> \o SENTIMENT \o <<",">> \o MESSAGE \o <<NL>>

\* C7, as claimed: the CSV is the header and one row per stored record,
\* newest first.
C7_ExportNewestFirst ==
    page.exported =>
        LET ls == Lines(page.csv_data) IN
        /\ Len(ls) = 1 + Len(Stored)
        /\ ls[1] = HEADER
        /\ \A i \in 1..Len(Stored) :
               ls[1 + i] = csv_line(Triple(Stored[Len(Stored) + 1 - i]))

\* C7, amended: the CSV is the header and one row per stored record, in
\* append order (oldest first).
C7_ExportOldestFirst ==
    page.exported =>
        LET ls == Lines(page.csv_data) IN
        /\ Len(ls) = 1 + Len(Stored)
        /\ ls[1] = HEADER
        /\ \A i \in 1..Len(Stored) : ls[1 + i] = csv_line(Triple(Stored[i]))

\* an export of two records that differ
C7_Witness ==
    page.exported /\ Len(Stored) = 2 /\ Stored[1] # Stored[2]

\* C8: no run of the script ends in an unhandled exception, also not after
\* the classifier returned a label outside the three recognised ones.
C8_NeverRaises == ~page.raised

RECURSIVE SumOver(_, _)
SumOver(f, S) ==
    IF S = {} THEN 0
    ELSE LET x == CHOOSE y \in S : TRUE IN f[x] + SumOver(f, S \ {x})

NumberOf(rows, label) ==
    Cardinality({i \in 1..Len(rows) : rows[i].sentiment = label})

\* C9: the keys of the label counts are exactly the labels that occur, each
\* with its number of occurrences, the counts sum to the number of records,
\* and the three metrics are the numbers of records with those labels.
C9_CountsPerLabel ==
    page.analytics =>
        /\ DOMAIN page.counts = {Stored[i].sentiment : i \in 1..Len(Stored)}
        /\ \A l \in DOMAIN page.counts :
               page.counts[l] = NumberOf(Stored, l) /\ page.counts[l] > 0
        /\ SumOver(page.counts, DOMAIN page.counts) = Len(Stored)
        /\ page.total = Len(Stored)
        /\ page.positive = NumberOf(Stored, POSITIVE)
        /\ page.negative = NumberOf(Stored, NEGATIVE)
        /\ page.neutral = NumberOf(Stored, NEUTRAL)

\* 3 positive, 1 negative and 2 neutral records
C9_Witness ==
    /\ page.analytics /\ Len(Stored) = 6
    /\ page.positive = 3 /\ page.negative = 1 /\ page.neutral = 2
    /\ DOMAIN page.counts = KnownLabels

HourOf(w) == w.clock \div 2

\* C10: the time series is computed only for more than one record; it then
\* has one bucket for every hour from that of the earliest to that of the
\* latest record, in increasing order, each with the number of records of
\* that hour, and the counts sum to the number of records.
C10_HourlySeries ==
    /\ page.charted => Len(Stored) > 1
    /\ (page.exported /\ Len(Stored) > 1) => page.charted
    /\ page.charted =>
           LET hours == {HourOf(written[i]) : i \in 1..Len(written)}
               n == Len(page.df_time)
           IN  /\ n = SetMax(hours) - SetMin(hours) + 1
               /\ \A k \in 1..n :
                      /\ page.df_time[k].hour = SetMin(hours) + k - 1
                      /\ page.df_time[k].count =
                             Cardinality({i \in 1..Len(written) :
                                 HourOf(written[i]) = page.df_time[k].hour})
               /\ SumOver([k \in 1..n |-> page.df_time[k].count], 1..n)
                      = Len(Stored)

\* a series with an hour in which nothing was written
C10_Witness ==
    /\ page.charted /\ Len(page.df_time) = 3
    /\ page.df_time[2].count = 0 /\ page.df_time[3].count = 2

====
